---- MODULE Spec2Model ----
(***************************************************************************)
(* ppsql: a thin layer over a PostgreSQL driver (src/core.py) and its      *)
(* timing decorator (src/utils.py).                                        *)
(*                                                                         *)
(* Two specifications:                                                     *)
(*   SpecPunc  the query normalizer check_punc as a pure function over all *)
(*             strings of at most MaxLen characters;                       *)
(*   Spec      one PyPostgreSql instance and the driver objects it owns:   *)
(*             select, get_table_description, insert, commit, close_conn.  *)
(***************************************************************************)
EXTENDS Integers, Sequences, FiniteSets

VARIABLES
    pq,      \* SpecPunc: the query string handed to check_punc
    pout,    \* SpecPunc: the latest string check_punc returned
    pprev,   \* SpecPunc: the string check_punc returned the time before
    pphase,  \* SpecPunc: "in", "once" (normalized once), "twice"
    drv,     \* Spec: the driver side (server table, transaction, handles)
    last,    \* Spec: the latest operation: its arguments and what it did
    hist     \* Spec: history of the handles over the whole run

vars == <<pq, pout, pprev, pphase, drv, last, hist>>

\* Python's None.
None == "None"

----------------------------------------------------------------------------
(* Strings are sequences of characters; three classes of character are     *)
(* enough for check_punc: the terminator, whitespace, anything else.       *)

Chars == {"s", ";", " "}

MaxLen == 4

RECURSIVE SeqsUpTo(_, _)
SeqsUpTo(S, n) ==
    IF n = 0 THEN {<<>>}
    ELSE LET shorter == SeqsUpTo(S, n - 1)
         IN shorter \cup {Append(s, x) : s \in {t \in shorter : Len(t) = n - 1}, x \in S}

Strings == SeqsUpTo(Chars, MaxLen)

\* str.lstrip(): drop leading whitespace.
RECURSIVE lstrip(_)
lstrip(s) ==
    IF s # <<>> /\ Head(s) = " " THEN lstrip(Tail(s)) ELSE s

\* str.rstrip(): drop trailing whitespace.
RECURSIVE rstrip(_)
rstrip(s) ==
    IF s # <<>> /\ s[Len(s)] = " " THEN rstrip(SubSeq(s, 1, Len(s) - 1)) ELSE s

\* str.strip(): drop whitespace at both ends.
strip(s) == rstrip(lstrip(s))

\* str.endswith(c) for a one-character suffix.
endswith(s, c) == s # <<>> /\ s[Len(s)] = c

\* A plausible slip: the terminator is appended without looking at the query.
check_punc_always(query) == query \o <<";">>

\* A plausible slip: the stripped copy is returned instead of the query.
check_punc_stripped(query) ==
    IF endswith(strip(query), ";") THEN strip(query) ELSE query \o <<";">>

\* core.py:37  query if query.strip().endswith(';') else query + ';'
check_punc(query) ==
    IF endswith(strip(query), ";") THEN query ELSE query \o <<";">>

\* Number of terminators in a string.
RECURSIVE CountSemi(_)
CountSemi(s) ==
    IF s = <<>> THEN 0
    ELSE (IF Head(s) = ";" THEN 1 ELSE 0) + CountSemi(Tail(s))

\* The string ends with one ';' and the character before it is not a ';'.
EndsWithSingleSemi(s) ==
    /\ endswith(s, ";")
    /\ Len(s) >= 2 => s[Len(s) - 1] # ";"

----------------------------------------------------------------------------
(* Python values. Optional and differently shaped values carry a tag k:    *)
(* None, a list (sequence of rows), a tuple (one row), a pair, a frame.    *)

NoneV == [k |-> "None"]
PyList(rows) == [k |-> "list", v |-> rows]
PyTuple(row) == [k |-> "tuple", v |-> row]
PyPair(a, b) == [k |-> "pair", result |-> a, colnames |-> b]
IsNone(x) == x.k = "None"

\* One server table with two columns; a row is <<id, name>>.
ColNames == <<"id", "name">>
Ids == {"i0", "i1"}
Names == {"a"}
Rows == {<<i, nm>> : i \in Ids, nm \in Names}

MaxTable == 2
MaxN == 2
MaxClose == 2

\* core.py:107  page_size=1000
page_size == 1000

\* The row sequences offered as data: none, one row, two rows in both orders.
RowSeqs ==
    {<<>>, <<<<"i1", "a">>>>, <<<<"i0", "a">>, <<"i1", "a">>>>, <<<<"i1", "a">>, <<"i0", "a">>>>}

\* A query: its text, and what the server makes of it.
QueryTexts == {<<"s">>, <<"s", ";">>}
Query(text, stmt) == [text |-> text, stmt |-> stmt]

\* The count selector n of a read: a Python value with its type.
\* ("str", 1) is the string "1", ("float", 1) is 1.0, ("bool", 1) is True.
NVals ==
    {[k |-> "int", v |-> i] : i \in -1 .. MaxN}
      \cup {[k |-> "str", v |-> 1], [k |-> "float", v |-> 1], [k |-> "bool", v |-> 1], NoneV}

\* A plausible slip: any number passes the type check.
isinstance_number(n) == n.k \in {"int", "bool", "float"}

\* isinstance(n, int): bool is a subclass of int.
isinstance_int(n) == n.k \in {"int", "bool"}

\* A tabular object (pandas.DataFrame) is held by column, as core.py:270 builds it:
\* data[j] is column j, data[j][i] its value in row i.
DataFrame(columns, data) == [k |-> "df", columns |-> columns, data |-> data]
\* The frame holding the given rows under the given column names.
FrameOf(columns, rows) ==
    DataFrame(columns, [j \in 1 .. Len(columns) |-> [i \in 1 .. Len(rows) |-> rows[i][j]]])
Frames == {FrameOf(ColNames, rows) : rows \in RowSeqs}
nrows(df) == Len(df.data[1])
ncols(df) == Len(df.data)

----------------------------------------------------------------------------
(* The driver boundary (psycopg2), reached only through the calls the      *)
(* source makes. A run r threads the driver state through one operation:   *)
(* once r.exc is set, an exception is propagating and later calls are      *)
(* skipped.                                                                *)

Run(d, h) ==
    [d |-> d, h |-> h, trace |-> <<>>, exc |-> "none", ret |-> NoneV,
     rs |-> NoneV, desc |-> NoneV, prints |-> 0, calls |-> <<>>]

Call(name, text, args) == [call |-> name, text |-> text, args |-> args]
Logged(r, c) == [r EXCEPT !.trace = Append(@, c)]
Raise(r, e) == [r EXCEPT !.exc = e]
\* The execution handle is touched; remember if the connection was released before.
CursorUsed(r) ==
    [r EXCEPT !.h.usedAfterRelease = @ \/ r.d.connClosed]

\* What the server does with a statement.
LiteralRow == <<"i0", "a">>
DescRows == <<<<"id", None>>, <<"name", None>>>>
DescCols == <<"column_name", "description">>
Apply(stmt, values, table) ==
    CASE stmt = "insert" -> Append(table, IF IsNone(values) THEN LiteralRow ELSE values.v)
      [] stmt = "delete" ->
            IF IsNone(values) THEN <<>>
            ELSE SelectSeq(table, LAMBDA row : row # values.v)
      [] OTHER -> table

\* cur.execute(query, values)
cur_execute(r, query, values, fail) ==
    IF r.exc # "none" THEN r
    ELSE LET r1 == CursorUsed(Logged(r, Call("cur.execute", query.text, values)))
         IN IF r1.d.curClosed THEN Raise(r1, "InterfaceError")
            ELSE IF r1.d.txn = "inerror" \/ fail
                 THEN Raise([r1 EXCEPT !.d.txn = "inerror"], "DatabaseError")
            ELSE CASE query.stmt = "select" ->
                        [r1 EXCEPT !.d.txn = "intrans",
                                   !.rs = PyList(r1.d.working), !.desc = PyList(ColNames)]
                   [] query.stmt = "describe" ->
                        [r1 EXCEPT !.d.txn = "intrans",
                                   !.rs = PyList(DescRows), !.desc = PyList(DescCols)]
                   [] OTHER ->
                        [r1 EXCEPT !.d.txn = "intrans",
                                   !.d.working = Apply(query.stmt, values, @),
                                   !.rs = NoneV, !.desc = NoneV]

Take(s, n) == SubSeq(s, 1, IF n < Len(s) THEN n ELSE Len(s))
Drop(s, n) == SubSeq(s, (IF n < Len(s) THEN n ELSE Len(s)) + 1, Len(s))

\* cur.fetchall(): every remaining row, as a list.
cur_fetchall(r) ==
    IF r.exc # "none" THEN r
    ELSE LET r1 == CursorUsed(Logged(r, Call("cur.fetchall", <<>>, NoneV)))
         IN IF IsNone(r1.rs) THEN Raise(r1, "ProgrammingError")
            ELSE [r1 EXCEPT !.ret = PyList(r1.rs.v), !.rs = PyList(<<>>)]

\* cur.fetchone(): the next row itself, or None when no row is left.
cur_fetchone(r) ==
    IF r.exc # "none" THEN r
    ELSE LET r1 == CursorUsed(Logged(r, Call("cur.fetchone", <<>>, NoneV)))
         IN IF IsNone(r1.rs) THEN Raise(r1, "ProgrammingError")
            ELSE IF r1.rs.v = <<>> THEN [r1 EXCEPT !.ret = NoneV]
            ELSE [r1 EXCEPT !.ret = PyTuple(Head(r1.rs.v)), !.rs = PyList(Tail(r1.rs.v))]

\* cur.fetchmany(size): at most the next size rows, as a list.
cur_fetchmany(r, size) ==
    IF r.exc # "none" THEN r
    ELSE LET r1 == CursorUsed(Logged(r, Call("cur.fetchmany", <<>>, NoneV)))
         IN IF IsNone(r1.rs) THEN Raise(r1, "ProgrammingError")
            ELSE [r1 EXCEPT !.ret = PyList(Take(r1.rs.v, size)),
                            !.rs = PyList(Drop(r1.rs.v, size))]

\* conn.commit()
conn_commit(r) ==
    IF r.exc # "none" THEN r
    ELSE LET r1 == Logged(r, Call("conn.commit", <<>>, NoneV))
         IN IF r1.d.connClosed THEN Raise(r1, "InterfaceError")
            ELSE IF r1.d.txn = "inerror"
                 THEN [r1 EXCEPT !.d.txn = "idle", !.d.working = r1.d.committed]
            ELSE [r1 EXCEPT !.d.txn = "idle", !.d.committed = r1.d.working]

\* Pages of page_size rows the batch insert sends for k rows.
Pages(k) == (k + page_size - 1) \div page_size

\* pg.extras.execute_values(cursor, query, tuples, template=None, page_size=1000)
execute_values(r, query, tuples, fail) ==
    IF r.exc # "none" THEN r
    ELSE LET r1 == Logged(r, Call("execute_values", query.text, tuples))
         IN IF IsNone(tuples) THEN Raise(r1, "TypeError")
            ELSE IF Pages(Len(tuples.v)) = 0 THEN r1
            ELSE IF r1.d.curClosed THEN Raise(CursorUsed(r1), "InterfaceError")
            ELSE IF r1.d.txn = "inerror" \/ fail
                 THEN Raise([CursorUsed(r1) EXCEPT !.d.txn = "inerror"], "DatabaseError")
            ELSE [CursorUsed(r1) EXCEPT !.d.txn = "intrans",
                                        !.d.working = @ \o tuples.v]

\* cur.close()
cur_close(r) ==
    IF r.exc # "none" THEN r
    ELSE [Logged(r, Call("cur.close", <<>>, NoneV))
            EXCEPT !.d.curClosed = TRUE, !.h.curCloseCalls = @ + 1]

\* conn.close()
conn_close(r) ==
    IF r.exc # "none" THEN r
    ELSE [Logged(r, Call("conn.close", <<>>, NoneV))
            EXCEPT !.d.connClosed = TRUE, !.h.connCloseCalls = @ + 1]

\* pd.DataFrame(result, columns=colnames): a list of rows gives a frame, None an
\* empty frame, a single row (a tuple of scalars) does not fit the columns.
pd_DataFrame(r, result, colnames) ==
    IF r.exc # "none" THEN r
    ELSE CASE result.k = "list" -> [r EXCEPT !.ret = FrameOf(colnames.v, result.v)]
           [] result.k = "None" -> [r EXCEPT !.ret = FrameOf(colnames.v, <<>>)]
           [] OTHER -> Raise(r, "ValueError")

----------------------------------------------------------------------------
(* src/core.py and src/utils.py.                                           *)

\* A wrapped method was entered with these arguments.
Entered(r, fn, args) == [r EXCEPT !.calls = Append(@, [fn |-> fn, args |-> args])]

Normalized(query) == [query EXCEPT !.text = check_punc(@)]

\* core.py:14  colnames = [desc[0] for desc in cur.description]
_get_colnames(r) ==
    IF r.exc # "none" THEN r
    ELSE LET r1 == CursorUsed(Logged(r, Call("cur.description", <<>>, NoneV)))
         IN IF IsNone(r1.desc) THEN Raise(r1, "TypeError")
            ELSE [r1 EXCEPT !.ret = PyList(r1.desc.v)]

\* A plausible slip: n = 1 is not singled out and goes through fetchmany.
Fetch_many(r, n) ==
    IF n.v = -1 THEN cur_fetchall(r) ELSE cur_fetchmany(r, n.v)

\* core.py:59-64  the fetch the count selector picks
Fetch(r, n) ==
    IF n.v = -1 THEN cur_fetchall(r)
    ELSE IF n.v = 1 THEN cur_fetchone(r)
    ELSE cur_fetchmany(r, n.v)

\* core.py:40
_select(r, query, n, fail) ==
    IF ~isinstance_int(n) THEN Raise(r, "ValueError")
    ELSE LET r1 == cur_execute(r, Normalized(query), NoneV, fail)
             r2 == Fetch(r1, n)
             r3 == _get_colnames(r2)
         IN IF r3.exc # "none" THEN r3
            ELSE [r3 EXCEPT !.ret = PyPair(r2.ret, r3.ret)]

\* A plausible slip: the statement is submitted and never committed.
commit_query_nocommit(r, query, values, fail) ==
    cur_execute(r, Normalized(query), values, fail)

\* A plausible slip: the commit sits in a finally block and runs after a failure too.
commit_query_finally(r, query, values, fail) ==
    LET r1 == cur_execute(r, Normalized(query), values, fail)
    IN IF r1.exc = "none" THEN conn_commit(r1)
       ELSE Raise(conn_commit([r1 EXCEPT !.exc = "none"]), r1.exc)

\* core.py:69
commit_query(r, query, values, fail) ==
    conn_commit(cur_execute(r, Normalized(query), values, fail))

\* A plausible slip: the frame is walked by column, one tuple per column.
pandas2tuples_bycolumn(df) ==
    PyList([j \in 1 .. ncols(df) |-> [i \in 1 .. nrows(df) |-> df.data[j][i]]])

\* core.py:83  [tuple(x.tolist()) for x in df.values]: one tuple per row of the
\* frame, each holding that row's value of every column, in column order.
pandas2tuples(df) ==
    PyList([i \in 1 .. nrows(df) |-> [j \in 1 .. ncols(df) |-> df.data[j][i]]])

\* core.py:96
insert_from_tuples(r, query, tuples, fail) ==
    conn_commit(execute_values(r, Normalized(query), tuples, fail))

\* A plausible slip: the print sits in a finally block and runs after a failure too.
timewrapper_finally(res) == [res EXCEPT !.prints = @ + 1]

\* utils.py:3  the wrapper's code after func returned or raised
timewrapper(res) ==
    IF res.exc = "none" THEN [res EXCEPT !.prints = @ + 1] ELSE res

\* core.py:138  PyPostgreSql.select, undecorated
select(r, query, n, return_type, fail) ==
    LET r0 == Entered(r, "select", [query |-> query, n |-> n, return_type |-> return_type])
        r1 == _select(r0, query, n, fail)
    IN IF r1.exc # "none" THEN r1
       ELSE IF return_type = "tuple" THEN r1
       ELSE IF return_type = "df" THEN pd_DataFrame(r1, r1.ret.result, r1.ret.colnames)
       ELSE [r1 EXCEPT !.ret = NoneV]

\* core.py:162-175  the catalogue query: its text ends in ';' and whitespace
DescQuery == Query(<<"s", ";", " ">>, "describe")

\* core.py:161  PyPostgreSql.get_table_description, undecorated; self.select is
\* the decorated method.
get_table_description(r, n, return_type, fail) ==
    LET r0 == Entered(r, "get_table_description", [n |-> n, return_type |-> return_type])
    IN timewrapper(select(r0, DescQuery, n, return_type, fail))

\* A plausible slip: the frame wins when both data sources are given.
insert_df_first(r, query, tuples, df, fail) ==
    LET r0 == Entered(r, "insert", [query |-> query, tuples |-> tuples, df |-> df])
        tuples1 == IF ~IsNone(df) THEN pandas2tuples(df) ELSE tuples
        r1 == insert_from_tuples(r0, query, tuples1, fail)
    IN IF r1.exc # "none" THEN r1 ELSE [r1 EXCEPT !.ret = NoneV]

\* core.py:181  PyPostgreSql.insert, undecorated
insert(r, query, tuples, df, fail) ==
    LET r0 == Entered(r, "insert", [query |-> query, tuples |-> tuples, df |-> df])
        tuples1 == IF ~IsNone(df) /\ IsNone(tuples) THEN pandas2tuples(df) ELSE tuples
        r1 == insert_from_tuples(r0, query, tuples1, fail)
    IN IF r1.exc # "none" THEN r1 ELSE [r1 EXCEPT !.ret = NoneV]

\* core.py:196  PyPostgreSql.commit, undecorated
commit(r, query, values, fail) ==
    LET r0 == Entered(r, "commit", [query |-> query, values |-> values])
        r1 == commit_query(r0, query, values, fail)
    IN IF r1.exc # "none" THEN r1 ELSE [r1 EXCEPT !.ret = NoneV]

\* A plausible slip: the connection is released before the cursor.
close_conn_reversed(r) == cur_close(conn_close(r))

\* core.py:221
close_conn(r) == conn_close(cur_close(r))

----------------------------------------------------------------------------
(* Spec: one instance, operations called one after another.                *)

\* What the latest operation was given and what it did.
Done(op, args, res) ==
    [op |-> op, args |-> args, trace |-> res.trace, exc |-> res.exc, ret |-> res.ret,
     prints |-> res.prints, calls |-> res.calls]

PuncIdle == pq = <<>> /\ pout = <<>> /\ pprev = <<>> /\ pphase = "off"

\* core.py:131-132  the handles are open; the server table is empty.
Init ==
    /\ PuncIdle
    /\ drv = [committed |-> <<>>, working |-> <<>>, txn |-> "idle",
              curClosed |-> FALSE, connClosed |-> FALSE]
    /\ hist = [curCloseCalls |-> 0, connCloseCalls |-> 0, usedAfterRelease |-> FALSE]
    /\ last = [op |-> "init", args |-> NoneV, trace |-> <<>>, exc |-> "none",
               ret |-> NoneV, prints |-> 0, calls |-> <<>>]

Finish(op, args, res) ==
    /\ last' = Done(op, args, res)
    /\ drv' = res.d
    /\ hist' = res.h
    /\ UNCHANGED <<pq, pout, pprev, pphase>>

ReturnTypes == {"tuple", "df", "list"}

Select ==
    \E text \in QueryTexts, n \in NVals, return_type \in ReturnTypes, fail \in BOOLEAN :
        LET query == Query(text, "select")
        IN Finish("select", [query |-> query, n |-> n, return_type |-> return_type],
                  timewrapper(select(Run(drv, hist), query, n, return_type, fail)))

GetTableDescription ==
    \E n \in NVals, return_type \in ReturnTypes, fail \in BOOLEAN :
        Finish("get_table_description", [n |-> n, return_type |-> return_type],
               timewrapper(get_table_description(Run(drv, hist), n, return_type, fail)))

OptTuples == {NoneV} \cup {PyList(rows) : rows \in RowSeqs}
OptFrames == {NoneV} \cup Frames
OptValues == {NoneV} \cup {PyTuple(row) : row \in Rows}

\* Rows the bulk insert will hand to the driver (for the bound on the table only).
Incoming(tuples, df) ==
    IF ~IsNone(tuples) THEN Len(tuples.v) ELSE IF ~IsNone(df) THEN nrows(df) ELSE 0

Insert ==
    \E text \in QueryTexts, tuples \in OptTuples, df \in OptFrames, fail \in BOOLEAN :
        /\ Len(drv.working) + Incoming(tuples, df) <= MaxTable
        /\ LET query == Query(text, "insert_values")
           IN Finish("insert", [query |-> query, tuples |-> tuples, df |-> df],
                     timewrapper(insert(Run(drv, hist), query, tuples, df, fail)))

Commit ==
    \E text \in QueryTexts, stmt \in {"insert", "delete"}, values \in OptValues,
       fail \in BOOLEAN :
        /\ stmt = "insert" => Len(drv.working) < MaxTable
        /\ LET query == Query(text, stmt)
           IN Finish("commit", [query |-> query, values |-> values],
                     timewrapper(commit(Run(drv, hist), query, values, fail)))

CloseConn ==
    /\ hist.connCloseCalls < MaxClose
    /\ Finish("close_conn", NoneV, close_conn(Run(drv, hist)))

Next == Select \/ GetTableDescription \/ Insert \/ Commit \/ CloseConn

Spec == Init /\ [][Next]_vars

----------------------------------------------------------------------------
(* SpecPunc: check_punc applied once, then again to its own result.        *)

InitPunc ==
    /\ pq \in Strings
    /\ pout = <<>>
    /\ pprev = <<>>
    /\ pphase = "in"
    /\ drv = [committed |-> <<>>, working |-> <<>>, txn |-> "idle",
              curClosed |-> FALSE, connClosed |-> FALSE]
    /\ hist = [curCloseCalls |-> 0, connCloseCalls |-> 0, usedAfterRelease |-> FALSE]
    /\ last = [op |-> "init", args |-> NoneV, trace |-> <<>>, exc |-> "none",
               ret |-> NoneV, prints |-> 0, calls |-> <<>>]

Normalize ==
    /\ pphase = "in"
    /\ pout' = check_punc(pq)
    /\ pphase' = "once"
    /\ UNCHANGED <<pq, pprev, drv, last, hist>>

Renormalize ==
    /\ pphase = "once"
    /\ pprev' = pout
    /\ pout' = check_punc(pout)
    /\ pphase' = "twice"
    /\ UNCHANGED <<pq, drv, last, hist>>

NextPunc == Normalize \/ Renormalize

SpecPunc == InitPunc /\ [][NextPunc]_vars

----------------------------------------------------------------------------
(* Properties.                                                             *)

\* The driver calls of an operation, in order.
Calls(trace) == [i \in DOMAIN trace |-> trace[i].call]

\* The rows of a frame, first to last, each <<id, name>> in column order.
RowsOf(df) == [i \in 1 .. nrows(df) |-> <<df.data[1][i], df.data[2][i]>>]

\* The last k elements of a sequence.
Suffix(s, k) == SubSeq(s, Len(s) - k + 1, Len(s))

\* C1 as stated: whatever the query, the string check_punc returns ends with a
\* single ';'.
C1_Original ==
    pphase = "once" => EndsWithSingleSemi(pout)

\* C1 amended: a query that, ignoring surrounding whitespace, does not end in ';'
\* gets exactly one ';' appended and the result ends with a single ';'; a query
\* that does is returned unchanged, so the result ends in ';' once trailing
\* whitespace is ignored and has as many ';' as the query had.
C1_Amended ==
    pphase = "once" =>
        /\ ~endswith(rstrip(pq), ";") =>
              /\ pout = pq \o <<";">>
              /\ EndsWithSingleSemi(pout)
              /\ CountSemi(pout) = CountSemi(pq) + 1
        /\ endswith(rstrip(pq), ";") =>
              /\ pout = pq
              /\ CountSemi(pout) = CountSemi(pq)
        /\ endswith(rstrip(pout), ";")

C1_Witness ==
    /\ pphase = "once"
    /\ pq = <<"s", ";", " ">>
    /\ pout = pq
    /\ ~EndsWithSingleSemi(pout)

\* C10: normalizing a normalized query changes nothing:
\* check_punc(check_punc(q)) = check_punc(q), and the number of ';' does not grow.
C10_Idempotent ==
    pphase = "twice" => (pout = pprev /\ CountSemi(pout) = CountSemi(pprev))

C10_Witness ==
    /\ pphase = "twice"
    /\ pq = <<"s", " ">>
    /\ pprev = <<"s", " ", ";">>
    /\ pout = pprev

\* C2: a read whose count selector is not an integer (a string, a float, None)
\* raises ValueError before anything reaches the driver: no execute, no fetch,
\* and no timing line.
C2_NonIntegerRejected ==
    (/\ last.op \in {"select", "get_table_description"}
     /\ last.args.n.k \notin {"int", "bool"})
        => (last.exc = "ValueError" /\ Len(last.trace) = 0 /\ last.prints = 0)

C2_Witness ==
    /\ last.op = "select"
    /\ last.args.n.k = "float"
    /\ last.exc = "ValueError"
    /\ Len(drv.working) > 0

\* C3: a read that returns normally executed once, fetched once as n says, and read
\* the column names afterwards: n = -1 gives every row as a list, n = 1 the first
\* row itself (None when there is none), any other n a list of the first n rows at
\* most; the column names come with it, in schema order.
C3_FetchByCount ==
    (/\ last.op = "select"
     /\ last.exc = "none"
     /\ last.args.return_type = "tuple")
        => LET n == last.args.n.v
               res == last.ret.result
               table == drv.working
           IN /\ last.ret.k = "pair"
              /\ last.ret.colnames.k = "list" /\ last.ret.colnames.v = ColNames
              /\ n = -1 =>
                    /\ res.k = "list" /\ res.v = table
                    /\ Calls(last.trace) = <<"cur.execute", "cur.fetchall", "cur.description">>
              /\ n = 1 =>
                    /\ IF table = <<>> THEN res.k = "None"
                       ELSE res.k = "tuple" /\ res.v = Head(table)
                    /\ Calls(last.trace) = <<"cur.execute", "cur.fetchone", "cur.description">>
              /\ n \notin {-1, 1} =>
                    /\ res.k = "list" /\ res.v = Take(table, n) /\ Len(res.v) <= n
                    /\ Calls(last.trace) = <<"cur.execute", "cur.fetchmany", "cur.description">>

C3_Witness ==
    /\ last.op = "select"
    /\ last.exc = "none"
    /\ last.args.return_type = "tuple"
    /\ last.args.n = [k |-> "int", v |-> 1]
    /\ Len(drv.working) = 2
    /\ last.ret.result.k = "tuple"
    /\ last.ret.result.v = drv.working[1]

\* C4: a write or bulk insert that returns normally made one submitting call and
\* then one conn.commit(), in that order, and nothing else; afterwards nothing of
\* it is uncommitted and the committed table shows its effect.
C4_WriteCommits ==
    (last.op \in {"commit", "insert"} /\ last.exc = "none")
        => /\ Calls(last.trace) =
                 <<IF last.op = "commit" THEN "cur.execute" ELSE "execute_values", "conn.commit">>
           /\ drv.committed = drv.working
           /\ drv.txn = "idle"
           /\ (last.op = "commit" /\ last.args.query.stmt = "insert") =>
                 /\ drv.committed # <<>>
                 /\ drv.committed[Len(drv.committed)] =
                       (IF IsNone(last.args.values) THEN LiteralRow ELSE last.args.values.v)
           /\ (last.op = "commit" /\ last.args.query.stmt = "delete"
                 /\ ~IsNone(last.args.values)) =>
                 \A i \in DOMAIN drv.committed : drv.committed[i] # last.args.values.v
           /\ (last.op = "insert") =>
                 LET sent == last.trace[1].args.v
                 IN /\ Len(drv.committed) >= Len(sent)
                    /\ Suffix(drv.committed, Len(sent)) = sent

C4_Witness ==
    /\ last.op = "commit"
    /\ last.exc = "none"
    /\ last.args.query.stmt = "insert"
    /\ ~IsNone(last.args.values)
    /\ Len(drv.committed) = 2
    /\ drv.committed[2] = last.args.values.v

\* C5: when execute raises in a write, the driver's error reaches the caller as it
\* is, the only driver call of the operation is that execute (no commit, no
\* rollback), the transaction stays as the driver left it, no timing line.
C5_FailedWriteUntouched ==
    (last.op = "commit" /\ last.exc # "none")
        => /\ Calls(last.trace) = <<"cur.execute">>
           /\ last.exc \in {"DatabaseError", "InterfaceError"}
           /\ last.exc = "DatabaseError" => drv.txn = "inerror"
           /\ last.prints = 0

C5_Witness ==
    /\ last.op = "commit"
    /\ last.exc = "DatabaseError"
    /\ drv.txn = "inerror"
    /\ drv.committed # <<>>

\* The latest operation was a bulk insert from a frame alone, of fewer rows than a
\* page, that returned normally.
FrameInserted(l) ==
    /\ l.op = "insert"
    /\ l.exc = "none"
    /\ IsNone(l.args.tuples)
    /\ ~IsNone(l.args.df)
    /\ nrows(l.args.df) < page_size

\* C6, the insert: one batch call, then one commit, and the committed table grows
\* by exactly the frame's rows, each in column order, in row order.
C6_InsertStep ==
    FrameInserted(last') =>
        /\ Calls(last'.trace) = <<"execute_values", "conn.commit">>
        /\ drv'.committed = drv.committed \o RowsOf(last'.args.df)

\* C6, the read that follows: select with n = -1 returns the whole table, and its
\* last k rows are the frame's k rows.
C6_ReadBack ==
    (/\ FrameInserted(last)
     /\ last'.op = "select"
     /\ last'.exc = "none"
     /\ last'.args.n = [k |-> "int", v |-> -1]
     /\ last'.args.return_type = "tuple")
        => LET rows == RowsOf(last.args.df)
               got == last'.ret.result
           IN /\ got.k = "list"
              /\ got.v = drv.committed
              /\ Len(got.v) >= Len(rows)
              /\ Suffix(got.v, Len(rows)) = rows

C7_Original ==
    /\ ~hist.usedAfterRelease
    /\ hist.connCloseCalls <= 1

\* C7 amended: every close_conn releases the cursor and then the connection, once
\* each, and as long as close_conn was not called the cursor is not used on a
\* released connection. Nothing stops a call after close_conn: it still reaches
\* the closed handles and raises, and a second close_conn releases them again.
C7_Amended ==
    /\ last.op = "close_conn" =>
          (Calls(last.trace) = <<"cur.close", "conn.close">> /\ last.exc = "none")
    /\ hist.curCloseCalls = hist.connCloseCalls
    /\ drv.connClosed <=> hist.connCloseCalls >= 1
    /\ drv.curClosed <=> drv.connClosed
    /\ hist.usedAfterRelease => hist.connCloseCalls >= 1
    /\ (drv.connClosed /\ last.op # "close_conn") => last.exc # "none"

C7_Witness ==
    /\ hist.connCloseCalls = 2
    /\ hist.usedAfterRelease
    /\ last.op = "close_conn"

\* C8: the bulk insert always reaches the driver's batch call, with no check of
\* its own first; the tuples are passed as given when given (a frame given too is
\* ignored), derived from the frame when only the frame is given, and None when
\* neither is given, in which case the batch call raises and nothing is committed.
C8_DataSource ==
    last.op = "insert" =>
        LET t == last.args.tuples
            df == last.args.df
        IN /\ Len(last.trace) >= 1
           /\ last.trace[1].call = "execute_values"
           /\ LET passed == last.trace[1].args
              IN /\ ~IsNone(t) => (passed.k = "list" /\ passed.v = t.v)
                 /\ (IsNone(t) /\ ~IsNone(df)) =>
                       (passed.k = "list" /\ passed.v = RowsOf(df))
                 /\ (IsNone(t) /\ IsNone(df)) =>
                       /\ passed.k = "None"
                       /\ last.exc = "TypeError"
                       /\ Calls(last.trace) = <<"execute_values">>

C8_Witness ==
    /\ last.op = "insert"
    /\ last.exc = "none"
    /\ ~IsNone(last.args.tuples)
    /\ ~IsNone(last.args.df)
    /\ last.args.tuples.v # RowsOf(last.args.df)
    /\ drv.committed = last.args.tuples.v
    /\ Len(drv.committed) = 2

\* C9: every decorated method runs once with the arguments it was given; when it
\* returns, each wrapper around it prints one timing line and hands the result on
\* as it is; when it raises, no timing line is printed and the error goes on as
\* it is.
C9_TimingTransparent ==
    last.op \in {"select", "insert", "commit", "get_table_description"} =>
        /\ last.calls[1] = [fn |-> last.op, args |-> last.args]
        /\ IF last.op = "get_table_description"
           THEN /\ Len(last.calls) = 2
                /\ last.calls[2] =
                      [fn |-> "select",
                       args |-> [query |-> DescQuery, n |-> last.args.n,
                                 return_type |-> last.args.return_type]]
           ELSE Len(last.calls) = 1
        /\ last.exc = "none" =>
              /\ last.prints = Len(last.calls)
              /\ last.op \in {"insert", "commit"} => last.ret.k = "None"
              /\ last.op \in {"select", "get_table_description"} =>
                    last.ret.k = (CASE last.args.return_type = "tuple" -> "pair"
                                    [] last.args.return_type = "df" -> "df"
                                    [] OTHER -> "None")
        /\ last.exc # "none" =>
              /\ last.prints = 0
              /\ last.exc \in {"ValueError", "TypeError", "DatabaseError", "InterfaceError"}

C9_Witness ==
    /\ last.op = "get_table_description"
    /\ last.exc = "none"
    /\ last.prints = 2
    /\ last.ret.k = "pair"
    /\ last.ret.result.k = "list"
    /\ last.ret.result.v = DescRows

====
